---- MODULE Spec2Model ----
(***************************************************************************)
(* A model of mini_nano.c, a small terminal text editor.                   *)
(*                                                                         *)
(* The global `struct editorConfig E` is the record variable E.  A row     *)
(* (struct erow) is modelled by its chars array: a sequence of size+1      *)
(* bytes, the last one being the terminator slot, so that memmove, memcpy  *)
(* and strdup can be modelled by what they do to the array.                *)
(***************************************************************************)
EXTENDS Integers, Sequences, FiniteSets, TLC

VARIABLES
    E,       \* struct editorConfig E (src/assembly/mini_nano.c:35-48)
    pc,      \* the read() the single thread is blocked in ("read": the main loop's,
             \* or a prompt's), or how the process has ended
    buf,     \* editorPrompt's accumulated text (buf[0..buflen))
    now,     \* the wall clock read by time(NULL)
    ev,      \* what the last step did (the key handled and the outcome of its I/O)
    infile,  \* the bytes of the file named on the command line, as read at startup
    rk,      \* the call of editorReadKey in progress: where it is, seq[], its result
    tty      \* the terminal: raw mode, the atexit handler, whether it has run

vars == <<E, pc, buf, now, ev, infile, rk, tty>>

(***************************************************************************)
(* Bounds of the model.                                                    *)
(***************************************************************************)
MaxRows == 2      \* Enter is taken only while numrows < MaxRows
MaxText == 2      \* a byte is typed only while the buffer holds < MaxText bytes
MaxScreen == 1    \* the terminal gives at most MaxScreen text rows and columns
MaxBuf == 1       \* a prompt accepts a byte only while buflen < MaxBuf
MaxTime == 1      \* the clock stops at MaxTime
MaxFileLen == 4   \* the files of SpecFile hold at most MaxFileLen bytes
MaxIdle == 2      \* a call of editorReadKey is followed through MaxIdle timeouts

(***************************************************************************)
(* Bytes and key codes.                                                    *)
(***************************************************************************)
NUL == 0
BS == 8
LF == 10
CR == 13
CTRL_O == 15
CTRL_Q == 17
CTRL_S == 19
CTRL_X == 24
ESC == 27
DEL == 127
ChA == 97
ChY == 121
ChUpperY == 89
ARROW_UP == 1065
ARROW_DOWN == 1066
ARROW_RIGHT == 1067
ARROW_LEFT == 1068
LBRACKET == 91
TILDE == 126
Ch0 == 48
Ch1 == 49
Ch3 == 51
Ch9 == 57
ChUpperA == 65
ChUpperD == 68

\* The printable bytes the model types.
Printable == {ChA, ChY}
\* The bytes an uninitialised or out-of-bounds read may deliver.
Garbage == {NUL, ChA}

iscntrl(c) == c < 32 \/ c = DEL

(***************************************************************************)
(* Rows.                                                                   *)
(***************************************************************************)
NumRows(e) == Len(e.rows)
RowSize(row) == Len(row) - 1
Content(row) == SubSeq(row, 1, Len(row) - 1)
\* The bytes of every row, in order: what the user sees as the document.
Contents(rows) == [i \in 1..Len(rows) |-> Content(rows[i])]
\* The length of row cy, the virtual row cy = numrows having length 0.
CurRowLen(e) == IF e.cy < NumRows(e) THEN RowSize(e.rows[e.cy + 1]) ELSE 0
\* The bytes of row cy, the virtual row being empty.
CurRowBytes(e) == IF e.cy < NumRows(e) THEN Content(e.rows[e.cy + 1]) ELSE <<>>

RECURSIVE TotalBytes(_)
TotalBytes(rows) ==
    IF rows = <<>> THEN 0 ELSE Len(Content(Head(rows))) + TotalBytes(Tail(rows))

\* All sequences over S of length exactly n / at most n.
RECURSIVE SeqsOfLen(_, _)
SeqsOfLen(S, n) ==
    IF n = 0 THEN {<<>>}
    ELSE {<<x>> \o s : x \in S, s \in SeqsOfLen(S, n - 1)}
SeqsUpTo(S, n) == UNION {SeqsOfLen(S, k) : k \in 0..n}

\* editorAppendRow(s, len): a copy of s with its terminator, at the end.
editorAppendRow(e, s) ==
    [e EXCEPT !.rows = Append(e.rows, s \o <<NUL>>), !.dirty = TRUE]

editorFreeRows(e) == [e EXCEPT !.rows = <<>>]

(***************************************************************************)
(* Editor operations.  Each returns the set of outcomes the build can      *)
(* produce: one outcome where the C code is defined, a choice where it     *)
(* reads or writes memory it does not own.  crash marks an outcome in      *)
(* which the process is killed inside the operation.                       *)
(***************************************************************************)
Ok(e) == [e |-> e, crash |-> FALSE]
Crash(e) == [e |-> e, crash |-> TRUE]

\* editorInsertChar(c): memmove of size - cx + 1 bytes one place right.
editorInsertChar(e, c) ==
    LET e1 == IF e.cy = NumRows(e) THEN editorAppendRow(e, <<>>) ELSE e
        row == e1.rows[e1.cy + 1]
        n == RowSize(row) - e1.cx + 1
    IN  IF n < 0 \/ e1.cx < 0
        THEN {Crash(e1)}
        ELSE {Ok([e1 EXCEPT
                    !.rows[e1.cy + 1] =
                        SubSeq(row, 1, e1.cx) \o <<c>> \o SubSeq(row, e1.cx + 1, Len(row)),
                    !.cx = @ + 1,
                    !.dirty = TRUE])}

\* The join branch of editorDelChar: row cy is copied onto the end of row cy-1.
\* A row whose size has gone negative makes the memcpy count huge (the row
\* joined) or makes it write before the array (the row joined onto).
JoinRows(e) ==
    LET prev == e.rows[e.cy]
        row == e.rows[e.cy + 1]
        prev_size == RowSize(prev)
        joined == IF prev_size >= 0
                  THEN SubSeq(prev, 1, prev_size) \o Content(row) \o <<NUL>>
                  ELSE SubSeq(Content(row) \o <<NUL>>, 2, Len(row))
        n == NumRows(e)
        res == [e EXCEPT
                  !.rows = SubSeq(e.rows, 1, e.cy - 1) \o <<joined>>
                           \o SubSeq(e.rows, e.cy + 2, n),
                  !.cy = @ - 1,
                  !.cx = prev_size,
                  !.dirty = TRUE]
    IN  IF RowSize(row) < 0 THEN {Crash(e)}
        ELSE IF prev_size < 0 THEN {Crash(e), Ok(res)}
        ELSE {Ok(res)}

\* editorDelChar() without its E.cx--.
editorDelChar_NoCxStep(e) ==
    IF e.cy = NumRows(e) THEN {Ok(e)}
    ELSE IF e.cx = 0 /\ e.cy = 0 THEN {Ok(e)}
    ELSE IF e.cx > 0
    THEN LET row == e.rows[e.cy + 1]
             n == RowSize(row) - e.cx + 1
         IN  IF n < 0
             THEN {Crash(e)}
             ELSE {Ok([e EXCEPT
                         !.rows[e.cy + 1] =
                             SubSeq(row, 1, e.cx - 1) \o SubSeq(row, e.cx + 1, Len(row)),
                         !.dirty = TRUE])}
    ELSE IF e.cy = 0 THEN {Crash(e)}
    ELSE JoinRows(e)

\* editorDelChar(): Backspace.
editorDelChar(e) ==
    IF e.cy = NumRows(e) THEN {Ok(e)}
    ELSE IF e.cx = 0 /\ e.cy = 0 THEN {Ok(e)}
    ELSE IF e.cx > 0
    THEN LET row == e.rows[e.cy + 1]
             n == RowSize(row) - e.cx + 1
         IN  IF n < 0
             THEN {Crash(e)}
             ELSE {Ok([e EXCEPT
                         !.rows[e.cy + 1] =
                             SubSeq(row, 1, e.cx - 1) \o SubSeq(row, e.cx + 1, Len(row)),
                         !.cx = @ - 1,
                         !.dirty = TRUE])}
    ELSE IF e.cy = 0 THEN {Crash(e)}   \* cx < 0: E.rows[-1]
    ELSE JoinRows(e)

\* The index of the first NUL of a chars array, 0 when it holds none.
RECURSIVE FirstNul(_, _)
FirstNul(arr, i) ==
    IF i > Len(arr) THEN 0
    ELSE IF arr[i] = NUL THEN i
    ELSE FirstNul(arr, i + 1)

\* strdup(row.chars) stored in a row that keeps row.size: the copy ends at the
\* first NUL; the bytes the size still claims after it were never written.
StrDup(row) ==
    LET k == FirstNul(row, 1)
    IN  IF k = 0 THEN {row}
        ELSE {SubSeq(row, 1, k) \o g : g \in SeqsOfLen(Garbage, Len(row) - k)}

\* editorInsertNewline(), the E.cx == 0 branch.
NewlineAtColumnZero(e) ==
    LET n == NumRows(e)
    IN  IF e.cy = n
        THEN \* E.rows[E.cy + 1] is one past the array just grown by one.
             {Crash(e),
              Ok([editorAppendRow(e, <<>>) EXCEPT !.cy = @ + 1, !.cx = 0, !.dirty = TRUE])}
        ELSE {Ok([e EXCEPT
                    !.rows = SubSeq(e.rows, 1, e.cy) \o <<<<NUL>>, d>>
                             \o SubSeq(e.rows, e.cy + 2, n),
                    !.cy = @ + 1,
                    !.cx = 0,
                    !.dirty = TRUE]) : d \in StrDup(e.rows[e.cy + 1])}

\* editorInsertNewline(), the general branch.
NewlineSplit(e) ==
    LET n == NumRows(e)
    IN  IF e.cy = n
        THEN \* row = &E.rows[E.cy] is one past the array: its size and chars
             \* are whatever lies there.
             {Crash(e)} \cup
             {Ok([editorAppendRow(e, g) EXCEPT !.cy = @ + 1, !.cx = 0, !.dirty = TRUE])
                 : g \in {h \in SeqsUpTo(Garbage, 1) :
                              TotalBytes(e.rows) + Len(h) <= MaxText}}
        ELSE LET row == e.rows[e.cy + 1]
                 newlen == RowSize(row) - e.cx
             IN  IF newlen < 0 \/ e.cx < 0
                 THEN {Crash(e)}
                 ELSE {Ok([e EXCEPT
                             !.rows = SubSeq(e.rows, 1, e.cy)
                                      \o << SubSeq(row, 1, e.cx) \o <<NUL>>,
                                            SubSeq(row, e.cx + 1, RowSize(row)) \o <<NUL>> >>
                                      \o SubSeq(e.rows, e.cy + 2, n),
                             !.cy = @ + 1,
                             !.cx = 0,
                             !.dirty = TRUE])}

\* editorInsertNewline(): Enter.
editorInsertNewline(e) ==
    IF e.cx = 0 THEN NewlineAtColumnZero(e) ELSE NewlineSplit(e)

\* editorMoveCursor(key).
editorMoveCursor(e, key) ==
    LET n == NumRows(e)
        Clamp(f) == IF f.cy < n /\ f.cx > RowSize(f.rows[f.cy + 1])
                    THEN [f EXCEPT !.cx = RowSize(f.rows[f.cy + 1])]
                    ELSE f
    IN  CASE key = ARROW_UP ->
               Clamp(IF e.cy > 0 THEN [e EXCEPT !.cy = @ - 1] ELSE e)
          [] key = ARROW_DOWN ->
               Clamp(IF e.cy < n THEN [e EXCEPT !.cy = @ + 1] ELSE e)
          [] key = ARROW_RIGHT ->
               IF e.cy < n /\ e.cx < RowSize(e.rows[e.cy + 1])
               THEN [e EXCEPT !.cx = @ + 1]
               ELSE IF e.cy < n /\ e.cx = RowSize(e.rows[e.cy + 1])
               THEN [e EXCEPT !.cy = @ + 1, !.cx = 0]
               ELSE e
          [] key = ARROW_LEFT ->
               IF e.cx > 0 THEN [e EXCEPT !.cx = @ - 1]
               ELSE IF e.cy > 0
               THEN [e EXCEPT !.cy = @ - 1, !.cx = RowSize(e.rows[e.cy])]
               ELSE e
          [] OTHER -> e

\* editorScroll() with cy - screenrows and cx - screencols, the + 1 forgotten.
editorScroll_OffByOne(e) ==
    LET r1 == IF e.cy < e.rowoff THEN e.cy ELSE e.rowoff
        r2 == IF e.cy >= r1 + e.screenrows THEN e.cy - e.screenrows ELSE r1
        c1 == IF e.cx < e.coloff THEN e.cx ELSE e.coloff
        c2 == IF e.cx >= c1 + e.screencols THEN e.cx - e.screencols ELSE c1
    IN  [e EXCEPT !.rowoff = r2, !.coloff = c2]

\* editorScroll().
editorScroll(e) ==
    LET r1 == IF e.cy < e.rowoff THEN e.cy ELSE e.rowoff
        r2 == IF e.cy >= r1 + e.screenrows THEN e.cy - e.screenrows + 1 ELSE r1
        c1 == IF e.cx < e.coloff THEN e.cx ELSE e.coloff
        c2 == IF e.cx >= c1 + e.screencols THEN e.cx - e.screencols + 1 ELSE c1
    IN  [e EXCEPT !.rowoff = r2, !.coloff = c2]

(***************************************************************************)
(* File I/O.  A file is [ok, bytes]: ok is FALSE when fopen fails.         *)
(***************************************************************************)
NoFile == [ok |-> FALSE, bytes |-> <<>>]
File(b) == [ok |-> TRUE, bytes |-> b]

RECURSIVE FirstLF(_, _)
FirstLF(b, i) ==
    IF i > Len(b) THEN 0
    ELSE IF b[i] = LF THEN i
    ELSE FirstLF(b, i + 1)

\* The successive results of getline: each line with its '\n', the last one
\* without when the file does not end in '\n'.
RECURSIVE GetLines(_)
GetLines(b) ==
    IF b = <<>> THEN <<>>
    ELSE LET k == FirstLF(b, 1)
         IN  IF k = 0 THEN <<b>>
             ELSE <<SubSeq(b, 1, k)>> \o GetLines(SubSeq(b, k + 1, Len(b)))

\* The strip loop testing for '\n' alone.
RECURSIVE StripEOL_OnlyLF(_)
StripEOL_OnlyLF(line) ==
    IF line # <<>> /\ line[Len(line)] = LF
    THEN StripEOL_OnlyLF(SubSeq(line, 1, Len(line) - 1))
    ELSE line

\* while (len > 0 && (line[len-1] == '\n' || line[len-1] == '\r')) len--;
RECURSIVE StripEOL(_)
StripEOL(line) ==
    IF line # <<>> /\ line[Len(line)] \in {LF, CR}
    THEN StripEOL(SubSeq(line, 1, Len(line) - 1))
    ELSE line

RECURSIVE AppendLines(_, _)
AppendLines(e, lines) ==
    IF lines = <<>> THEN e
    ELSE AppendLines(editorAppendRow(e, StripEOL(Head(lines))), Tail(lines))

\* editorOpen(filename) at time t, fopen and getline delivering `file`.
editorOpen(e, filename, file, t) ==
    LET e1 == [editorFreeRows(e) EXCEPT !.filename = filename]
    IN  IF ~file.ok
        THEN [e1 EXCEPT !.statusmsg = "Could not open", !.statusmsg_time = t]
        ELSE [AppendLines(e1, GetLines(file.bytes)) EXCEPT
                !.dirty = FALSE,
                !.statusmsg = "Opened",
                !.statusmsg_time = t]

\* The buffer built with '\n' between the rows only.
RECURSIVE SaveBuffer_NoFinalLF(_)
SaveBuffer_NoFinalLF(rows) ==
    IF rows = <<>> THEN <<>>
    ELSE IF Len(rows) = 1 THEN Content(Head(rows))
    ELSE Content(Head(rows)) \o <<LF>> \o SaveBuffer_NoFinalLF(Tail(rows))

\* The buffer editorSave builds: every row's bytes followed by '\n'.
RECURSIVE SaveBuffer(_)
SaveBuffer(rows) ==
    IF rows = <<>> THEN <<>>
    ELSE Content(Head(rows)) \o <<LF>> \o SaveBuffer(Tail(rows))

\* What open, ftruncate and write may do to one editorSave call.
SaveIO == {"ok", "open_fail", "truncate_fail", "short_write"}

\* editorSave() clearing E.dirty before the write, so that a short write
\* leaves it cleared.
editorSave_DirtyClearedEarly(e, name, io, t) ==
    LET filename == IF name = <<>> THEN e.filename ELSE name
        Ret(f, r) == [e |-> f, ret |-> r, crash |-> FALSE]
    IN  IF filename = <<>>
        THEN {Ret([e EXCEPT !.statusmsg = "No filename", !.statusmsg_time = t], 0)}
        ELSE IF io = "open_fail"
        THEN {Ret([e EXCEPT !.statusmsg = "Can't save", !.statusmsg_time = t], 0)}
        ELSE IF \E i \in 1..Len(e.rows) : RowSize(e.rows[i]) < 0
        THEN {[e |-> e, ret |-> 0, crash |-> TRUE]}
        ELSE IF io = "truncate_fail"
        THEN {Ret(e, 0)}
        ELSE IF io = "short_write"
        THEN {Ret([e EXCEPT !.dirty = FALSE,
                            !.statusmsg = "Write error", !.statusmsg_time = t], 0)}
        ELSE {Ret([e EXCEPT !.dirty = FALSE,
                            !.statusmsg = "Saved to",
                            !.statusmsg_time = t], 1)}

\* editorSave(filename) at time t under the I/O outcome io: the outcomes
\* [e, ret, crash].  A row of negative size makes the memcpy count huge.
editorSave(e, name, io, t) ==
    LET filename == IF name = <<>> THEN e.filename ELSE name
        Ret(f, r) == [e |-> f, ret |-> r, crash |-> FALSE]
    IN  IF filename = <<>>
        THEN {Ret([e EXCEPT !.statusmsg = "No filename", !.statusmsg_time = t], 0)}
        ELSE IF io = "open_fail"
        THEN {Ret([e EXCEPT !.statusmsg = "Can't save", !.statusmsg_time = t], 0)}
        ELSE IF \E i \in 1..Len(e.rows) : RowSize(e.rows[i]) < 0
        THEN {[e |-> e, ret |-> 0, crash |-> TRUE]}
        ELSE IF io = "truncate_fail"
        THEN {Ret(e, 0)}
        ELSE IF io = "short_write"
        THEN {Ret([e EXCEPT !.statusmsg = "Write error", !.statusmsg_time = t], 0)}
        ELSE {Ret([e EXCEPT !.dirty = FALSE,
                            !.statusmsg = "Saved to",
                            !.statusmsg_time = t], 1)}

(***************************************************************************)
(* The prompt.                                                             *)
(***************************************************************************)
\* The loop returning buf on Enter whatever buflen is.
PromptStep_AcceptsEmpty(b, c) ==
    IF c = CR
    THEN [buf |-> b, res |-> "accept"]
    ELSE IF c = DEL \/ c = BS
    THEN [buf |-> IF Len(b) # 0 THEN SubSeq(b, 1, Len(b) - 1) ELSE b, res |-> "active"]
    ELSE IF ~iscntrl(c) /\ c < 128
    THEN [buf |-> Append(b, c), res |-> "active"]
    ELSE IF c = ESC
    THEN [buf |-> b, res |-> "cancel"]
    ELSE [buf |-> b, res |-> "active"]

\* One iteration of editorPrompt's loop on key c: the new text and whether
\* the prompt goes on ("active"), returns buf ("accept") or returns NULL
\* ("cancel").
PromptStep(b, c) ==
    IF c = CR
    THEN [buf |-> b, res |-> IF Len(b) # 0 THEN "accept" ELSE "cancel"]
    ELSE IF c = DEL \/ c = BS
    THEN [buf |-> IF Len(b) # 0 THEN SubSeq(b, 1, Len(b) - 1) ELSE b, res |-> "active"]
    ELSE IF ~iscntrl(c) /\ c < 128
    THEN [buf |-> Append(b, c), res |-> "active"]
    ELSE IF c = ESC
    THEN [buf |-> b, res |-> "cancel"]
    ELSE [buf |-> b, res |-> "active"]

\* The top of editorPrompt's loop: the prompt and the text go to the status line.
PromptMsg(e, t) == [e EXCEPT !.statusmsg = "prompt", !.statusmsg_time = t]

(***************************************************************************)
(* editorReadKey.  Where a specification does not follow its reads, the    *)
(* call is one step that delivers a key (rk.at = "atomic"); where it does, *)
(* rk.at is the read() the call is at, and "returned" once it has returned *)
(* the key rk.ret to its caller.                                           *)
(***************************************************************************)
Atomic == [at |-> "atomic", seq |-> <<>>, reads |-> 0, idle |-> 0, last |-> "", ret |-> 0]
\* editorReadKey is entered: its first read() is next.
RkStart == [at |-> "first", seq |-> <<>>, reads |-> 0, idle |-> 0, last |-> "", ret |-> 0]

\* The caller has used the key and calls editorReadKey again.
Called(r) == IF r.at = "atomic" THEN r ELSE RkStart

\* The keys editorReadKey delivers to its caller now: any key of S when the
\* call is one step, the key it has returned otherwise.
KeyRead(S) ==
    IF rk.at = "atomic" THEN S
    ELSE IF rk.at = "returned" THEN {rk.ret}
    ELSE {}

(***************************************************************************)
(* The terminal.  raw: raw mode has been set; atexit: disableRawMode is     *)
(* registered; disabled: disableRawMode has run, that is, has asked the    *)
(* terminal to take orig_termios back.                                     *)
(***************************************************************************)
Cooked == [raw |-> FALSE, atexit |-> FALSE, disabled |-> FALSE]

\* disableRawMode(): tcsetattr back to orig_termios, its result ignored.
disableRawMode(t) == [t EXCEPT !.disabled = TRUE]

\* exit(): the handlers registered with atexit run.
exit(t) == IF t.atexit THEN disableRawMode(t) ELSE t

\* die(s): the screen is cleared, perror(s), exit(1).
die(t) == exit(t)

\* enableRawMode() leaving the handler unregistered.
enableRawMode_NoAtexit(t, io) ==
    IF io = "tcgetattr" THEN die(t)
    ELSE IF io = "tcsetattr" THEN die(t)
    ELSE [t EXCEPT !.raw = TRUE]

\* enableRawMode(), io saying which of its calls fails: "tcgetattr" dies at
\* once, "tcsetattr" dies with the handler registered.
enableRawMode(t, io) ==
    IF io = "tcgetattr" THEN die(t)
    ELSE IF io = "tcsetattr" THEN die([t EXCEPT !.atexit = TRUE])
    ELSE [t EXCEPT !.atexit = TRUE, !.raw = TRUE]

(***************************************************************************)
(* Start-up.                                                               *)
(***************************************************************************)
\* initEditor(), the terminal having ws_row - 2 = screenrows text rows.
initEditor(screenrows, screencols) ==
    [cx |-> 0, cy |-> 0, rowoff |-> 0, coloff |-> 0,
     screenrows |-> screenrows, screencols |-> screencols,
     rows |-> <<>>, dirty |-> FALSE, filename |-> <<>>,
     statusmsg |-> "", statusmsg_time |-> 0]

\* argv[1] of the runs that name a file.
ArgName == <<ChA>>

\* main() up to its loop.  arg is [given, file]: whether argv[1] is there and
\* what fopen and getline deliver for it.
Startup(arg, screenrows, screencols, t) ==
    LET e0 == initEditor(screenrows, screencols)
        e1 == IF arg.given
              THEN [editorOpen(e0, ArgName, arg.file, t) EXCEPT !.filename = ArgName]
              ELSE e0
    IN  [e1 EXCEPT !.statusmsg = "Ctrl-S: Save | Ctrl-O: Open | Ctrl-X: Exit",
                   !.statusmsg_time = t]

\* editorRefreshScreen(): the scroll; the rest is output.
editorRefreshScreen(e) == editorScroll(e)

NoArg == [given |-> FALSE, file |-> NoFile]
Arg(f) == [given |-> TRUE, file |-> f]

\* The files the editor is started on, and the ones Ctrl-O finds.
StartFiles == { <<ChA, LF, ChY, CR, LF>>, <<ChA, NUL, ChY, LF>> }
OpenFiles == { <<ChY, LF>> }
\* The screens: ws_row - 2 may be 0.
ScreenRows == 0..MaxScreen
ScreenCols == 1..MaxScreen

\* The state in which main() first waits for a key, editorReadKey starting
\* as r.
Boot(args, r) ==
    /\ rk = r
    /\ tty = enableRawMode(Cooked, "ok")
    /\ now = 0
    /\ infile \in args
    /\ \E sr \in ScreenRows, sc \in ScreenCols :
          E = editorRefreshScreen(Startup(infile, sr, sc, now))
    /\ pc = "read"
    /\ buf = <<>>
    /\ ev = "start"

InitWith(args) == Boot(args, Atomic)

Init == InitWith({NoArg, Arg(NoFile)} \cup {Arg(File(f)) : f \in StartFiles})

(***************************************************************************)
(* The main loop: editorRefreshScreen(); editorProcessKeypress();          *)
(* A step runs from one read() that delivers a key to the next read(): the *)
(* handler of the key and, when it returns to the loop, the refresh that   *)
(* follows.                                                                *)
(***************************************************************************)
\* editorProcessKeypress returns with state e: the loop refreshes the screen
\* and reads the next key.
BackToLoop(e) ==
    /\ E' = editorRefreshScreen(e)
    /\ pc' = "read"

\* The keys editorReadKey returns in the model.
Arrows == {ARROW_UP, ARROW_DOWN, ARROW_RIGHT, ARROW_LEFT}
Keys == {CR, DEL, BS, CTRL_S, CTRL_O, CTRL_X, CTRL_Q, ESC} \cup Arrows \cup Printable
PromptKeys == Keys \cup {ChUpperY}

\* The branch editorProcessKeypress takes on key c.
Dispatch(c) ==
    CASE c = CTRL_Q -> "return"
      [] c = CR -> "newline"
      [] c = DEL \/ c = BS -> "del"
      [] c = CTRL_S -> "save"
      [] c = CTRL_O -> "open"
      [] c = CTRL_X -> "exit"
      [] c \in Arrows -> "move"
      [] OTHER -> IF ~iscntrl(c) /\ c < 128 THEN "insert" ELSE "none"

\* An editing operation has produced outcome o.
Edited(o, what) ==
    /\ IF o.crash THEN E' = o.e /\ pc' = "crashed" ELSE BackToLoop(o.e)
    /\ ev' = what
    /\ rk' = Called(rk)
    /\ UNCHANGED <<buf, now, infile, tty>>

KeyNewline ==
    /\ pc = "read"
    /\ NumRows(E) < MaxRows
    /\ \E c \in KeyRead(Keys) : Dispatch(c) = "newline"
    /\ \E o \in editorInsertNewline(E) : Edited(o, "edit")

KeyDel ==
    /\ pc = "read"
    /\ \E c \in KeyRead(Keys) : Dispatch(c) = "del"
    /\ \E o \in editorDelChar(E) : Edited(o, "edit")

KeyMove ==
    /\ pc = "read"
    /\ \E c \in KeyRead(Keys) :
          /\ Dispatch(c) = "move"
          /\ Edited(Ok(editorMoveCursor(E, c)), "edit")

KeyChar ==
    /\ pc = "read"
    /\ TotalBytes(E.rows) < MaxText
    /\ E.cy = NumRows(E) => NumRows(E) < MaxRows
    /\ \E c \in KeyRead(Keys) :
          /\ Dispatch(c) = "insert"
          /\ \E o \in editorInsertChar(E, c) : Edited(o, "edit")

\* Ctrl-Q, Escape: nothing is done.
KeyIgnored ==
    /\ pc = "read"
    /\ \E c \in KeyRead(Keys) : Dispatch(c) \in {"return", "none"}
    /\ BackToLoop(E)
    /\ ev' = "edit"
    /\ rk' = Called(rk)
    /\ UNCHANGED <<buf, now, infile, tty>>

\* editorPrompt is entered: its loop shows the prompt and waits for a key.
EnterPrompt(which) ==
    /\ E' = PromptMsg(E, now)
    /\ pc' = which
    /\ buf' = <<>>
    /\ ev' = "prompt"
    /\ rk' = Called(rk)
    /\ UNCHANGED <<now, infile, tty>>

\* editorSave(E.filename) has produced outcome o under io; the handler then
\* returns to the loop or, on the exit path, calls exit(0).
Saved(o, io, exits) ==
    /\ IF o.crash THEN E' = o.e /\ pc' = "crashed" /\ tty' = tty
       ELSE IF exits THEN E' = o.e /\ pc' = "exited" /\ tty' = exit(tty)
       ELSE BackToLoop(o.e) /\ tty' = tty
    /\ ev' = "save_" \o io
    /\ buf' = <<>>
    /\ rk' = Called(rk)
    /\ UNCHANGED <<now, infile>>

KeyCtrlS ==
    /\ pc = "read"
    /\ \E c \in KeyRead(Keys) : Dispatch(c) = "save"
    /\ IF E.filename = <<>>
       THEN EnterPrompt("saveas")
       ELSE \E io \in SaveIO : \E o \in editorSave(E, E.filename, io, now) :
               Saved(o, io, FALSE)

KeyCtrlO ==
    /\ pc = "read"
    /\ \E c \in KeyRead(Keys) : Dispatch(c) = "open"
    /\ EnterPrompt("open")

\* exit(0) after the screen is cleared.
Exit(what) ==
    /\ pc' = "exited"
    /\ ev' = what
    /\ buf' = <<>>
    /\ tty' = exit(tty)
    /\ rk' = Called(rk)
    /\ UNCHANGED <<E, now, infile>>

KeyCtrlX ==
    /\ pc = "read"
    /\ \E c \in KeyRead(Keys) : Dispatch(c) = "exit"
    /\ IF E.dirty THEN EnterPrompt("confirm") ELSE Exit("exit")

Prompts == {"saveas", "open", "confirm", "exit_saveas"}

\* A key that leaves the prompt active.
PromptType ==
    /\ pc \in Prompts
    /\ \E c \in KeyRead(PromptKeys) :
          LET r == PromptStep(buf, c)
          IN  /\ r.res = "active"
              /\ Len(r.buf) <= MaxBuf
              /\ buf' = r.buf
              /\ E' = PromptMsg(E, now)
              /\ ev' = "prompt_key"
              /\ rk' = Called(rk)
              /\ UNCHANGED <<pc, now, infile, tty>>

\* The prompt returns NULL or the text: r.res is "cancel" or "accept".
Cancelled ==
    /\ BackToLoop(E)
    /\ ev' = "cancel"
    /\ buf' = <<>>
    /\ rk' = Called(rk)
    /\ UNCHANGED <<now, infile, tty>>

\* Ctrl-S copying the prompt's text into E.filename before testing fn.
PromptSaveAs_BindsOnCancel ==
    /\ pc = "saveas"
    /\ \E c \in KeyRead(PromptKeys) :
          LET r == PromptStep(buf, c)
              e1 == [E EXCEPT !.filename = r.buf]
          IN  \/ /\ r.res = "cancel"
                 /\ BackToLoop(e1)
                 /\ ev' = "cancel"
                 /\ buf' = <<>>
                 /\ rk' = Called(rk)
                 /\ UNCHANGED <<now, infile, tty>>
              \/ /\ r.res = "accept"
                 /\ \E io \in SaveIO : \E o \in editorSave(e1, e1.filename, io, now) :
                        Saved(o, io, FALSE)

PromptSaveAs ==
    /\ pc = "saveas"
    /\ \E c \in KeyRead(PromptKeys) :
          LET r == PromptStep(buf, c)
          IN  \/ r.res = "cancel" /\ Cancelled
              \/ /\ r.res = "accept"
                 /\ LET e1 == [E EXCEPT !.filename = r.buf]
                    IN  \E io \in SaveIO : \E o \in editorSave(e1, e1.filename, io, now) :
                           Saved(o, io, FALSE)

PromptOpen ==
    /\ pc = "open"
    /\ \E c \in KeyRead(PromptKeys) :
          LET r == PromptStep(buf, c)
          IN  \/ r.res = "cancel" /\ Cancelled
              \/ /\ r.res = "accept"
                 /\ \E f \in {NoFile} \cup {File(b) : b \in OpenFiles} :
                       /\ BackToLoop([editorOpen(E, r.buf, f, now) EXCEPT !.cx = 0, !.cy = 0])
                       /\ ev' = IF f.ok THEN "open_ok" ELSE "open_fail"
                 /\ buf' = <<>>
                 /\ rk' = Called(rk)
                 /\ UNCHANGED <<now, infile, tty>>

\* The confirmation testing ans[0] == 'y' alone.
PromptConfirm_LowercaseOnly ==
    /\ pc = "confirm"
    /\ \E c \in KeyRead(PromptKeys) :
          LET r == PromptStep(buf, c)
          IN  \/ r.res = "cancel" /\ Exit("exit_cancel")
              \/ /\ r.res = "accept"
                 /\ IF r.buf[1] = ChY
                    THEN IF E.filename = <<>>
                         THEN EnterPrompt("exit_saveas")
                         ELSE \E io \in SaveIO : \E o \in editorSave(E, E.filename, io, now) :
                                 Saved(o, io, TRUE)
                    ELSE Exit("exit_no")

PromptConfirm ==
    /\ pc = "confirm"
    /\ \E c \in KeyRead(PromptKeys) :
          LET r == PromptStep(buf, c)
          IN  \/ r.res = "cancel" /\ Exit("exit_cancel")
              \/ /\ r.res = "accept"
                 /\ IF r.buf[1] = ChY \/ r.buf[1] = ChUpperY
                    THEN IF E.filename = <<>>
                         THEN EnterPrompt("exit_saveas")
                         ELSE \E io \in SaveIO : \E o \in editorSave(E, E.filename, io, now) :
                                 Saved(o, io, TRUE)
                    ELSE Exit("exit_no")

PromptExitSaveAs ==
    /\ pc = "exit_saveas"
    /\ \E c \in KeyRead(PromptKeys) :
          LET r == PromptStep(buf, c)
          IN  \/ r.res = "cancel" /\ Cancelled
              \/ /\ r.res = "accept"
                 /\ LET e1 == [E EXCEPT !.filename = r.buf]
                    IN  \E io \in SaveIO : \E o \in editorSave(e1, e1.filename, io, now) :
                           Saved(o, io, TRUE)

\* read() returns 0 after VTIME: editorReadKey's loop reads again.  The clock
\* has moved on.
ReadTimeout ==
    /\ pc \in {"read"} \cup Prompts
    /\ rk.at = "atomic"
    /\ now < MaxTime
    /\ now' = now + 1
    /\ UNCHANGED <<E, pc, buf, ev, infile, rk, tty>>

\* read() fails: die("read").
ReadError ==
    /\ pc \in {"read"} \cup Prompts
    /\ rk.at \in {"atomic", "first"}
    /\ pc' = "died"
    /\ ev' = "die"
    /\ tty' = die(tty)
    /\ UNCHANGED <<E, buf, now, infile, rk>>

(***************************************************************************)
(* editorReadKey read by read.                                             *)
(***************************************************************************)
\* The bytes the terminal sends in the model.
KeyBytes == {ESC, LBRACKET, Ch1, Ch3, TILDE, ChUpperA, ChUpperD}

\* editorReadKey returns key c.
Returned(r, c) == [r EXCEPT !.at = "returned", !.ret = c]

\* A follow-up read has delivered byte b into seq[]: the state of the call.
RkAfterByte(r, b) ==
    LET r1 == [r EXCEPT !.seq = Append(@, b), !.reads = @ + 1, !.last = "byte"]
    IN  IF r.at = "seq0" THEN [r1 EXCEPT !.at = "seq1"]
        ELSE IF r.at = "seq1"
        THEN IF r.seq[1] # LBRACKET THEN Returned(r1, ESC)
             ELSE IF b >= Ch0 /\ b <= Ch9 THEN [r1 EXCEPT !.at = "seq2"]
             ELSE IF b >= ChUpperA /\ b <= ChUpperD THEN Returned(r1, b + 1000)
             ELSE Returned(r1, ESC)
        ELSE IF b = TILDE /\ r.seq[2] = Ch3 THEN Returned(r1, DEL)
        ELSE Returned(r1, ESC)

\* The first read() delivers a byte of S: ESC opens a sequence, any other
\* byte is the key.
RkFirstOf(S) ==
    /\ \E c \in S :
          rk' = IF c = ESC
                THEN [rk EXCEPT !.at = "seq0", !.last = "byte"]
                ELSE Returned([rk EXCEPT !.last = "byte"], c)
    /\ UNCHANGED <<E, pc, buf, now, ev, infile, tty>>

RkFirst ==
    /\ pc \in {"read"} \cup Prompts
    /\ rk.at = "first"
    /\ RkFirstOf(KeyBytes)

\* The user types text: printable bytes and Enter.
TypeBytes == Printable \cup {CR}
RkType ==
    /\ pc \in {"read"} \cup Prompts
    /\ rk.at = "first"
    /\ RkFirstOf(TypeBytes)

\* The first read() returns 0 after VTIME, or -1 with EAGAIN: the while loop
\* reads again.
RkFirstNone ==
    /\ pc \in {"read"} \cup Prompts
    /\ rk.at = "first"
    /\ rk.idle < MaxIdle
    /\ rk' = [rk EXCEPT !.idle = @ + 1, !.last = "none"]
    /\ UNCHANGED <<E, pc, buf, now, ev, infile, tty>>

\* A follow-up read that retries when no byte has come.
RkSeq_RetryOnTimeout ==
    /\ pc \in {"read"} \cup Prompts
    /\ rk.at \in {"seq0", "seq1", "seq2"}
    /\ \/ rk' = [rk EXCEPT !.reads = @ + 1, !.last = "none"]
       \/ \E b \in KeyBytes : rk' = RkAfterByte(rk, b)
    /\ UNCHANGED <<E, pc, buf, now, ev, infile, tty>>

\* A read into seq[0], seq[1] or seq[2]: anything but one byte returns ESC.
RkSeq ==
    /\ pc \in {"read"} \cup Prompts
    /\ rk.at \in {"seq0", "seq1", "seq2"}
    /\ \/ rk' = Returned([rk EXCEPT !.reads = @ + 1, !.last = "none"], ESC)
       \/ \E b \in KeyBytes : rk' = RkAfterByte(rk, b)
    /\ UNCHANGED <<E, pc, buf, now, ev, infile, tty>>

EditNext ==
    \/ KeyNewline
    \/ KeyDel
    \/ KeyMove
    \/ KeyChar
    \/ KeyIgnored

Next ==
    \/ EditNext
    \/ KeyCtrlS
    \/ KeyCtrlO
    \/ KeyCtrlX
    \/ PromptType
    \/ PromptSaveAs
    \/ PromptOpen
    \/ PromptConfirm
    \/ PromptExitSaveAs
    \/ ReadTimeout
    \/ ReadError

Spec == Init /\ [][Next]_vars

\* The editing keys alone.
SpecEdit == Init /\ [][EditNext]_vars

\* The controller: saving, opening, leaving and the prompts, with typing and
\* Backspace as the only edits.
CtlNext ==
    \/ KeyChar
    \/ KeyDel
    \/ KeyCtrlS
    \/ KeyCtrlO
    \/ KeyCtrlX
    \/ PromptType
    \/ PromptSaveAs
    \/ PromptOpen
    \/ PromptConfirm
    \/ PromptExitSaveAs
    \/ ReadTimeout
    \/ ReadError

SpecCtl == Init /\ [][CtlNext]_vars

\* Loading: the editor is started on every file of at most MaxFileLen bytes.
FileBytes == {NUL, LF, CR, ChA}
InitFile == InitWith({Arg(File(b)) : b \in SeqsUpTo(FileBytes, MaxFileLen)})

FileNext ==
    \/ KeyCtrlS
    \/ KeyCtrlX
    \/ ReadError

SpecFile == InitFile /\ [][FileNext]_vars

\* Start-up ends in die(): tcgetattr or tcsetattr fails in enableRawMode, or
\* getWindowSize fails in initEditor.  E is still the zeroed global.
BootFailed ==
    /\ \E io \in {"tcgetattr", "tcsetattr", "winsize"} :
          /\ tty = IF io = "winsize" THEN die(enableRawMode(Cooked, "ok"))
                   ELSE enableRawMode(Cooked, io)
          /\ ev = "die_" \o io
    /\ pc = "died"
    /\ E = initEditor(0, 0)
    /\ rk = Atomic
    /\ now = 0
    /\ buf = <<>>
    /\ infile = NoArg

\* Leaving: every way the process ends by exit(), from start-up on.
InitTerm == InitWith({NoArg, Arg(NoFile)}) \/ BootFailed

TermNext ==
    \/ KeyChar
    \/ KeyCtrlX
    \/ PromptType
    \/ PromptConfirm
    \/ PromptExitSaveAs
    \/ ReadError

SpecTerm == InitTerm /\ [][TermNext]_vars

\* The keyboard: editorReadKey read by read in the main loop, started
\* without a file, with the handlers of the keys it can return.
InitKey == Boot({NoArg}, RkStart)

KeyNext ==
    \/ RkFirst
    \/ RkFirstNone
    \/ RkSeq
    \/ ReadError
    \/ KeyMove
    \/ KeyDel
    \/ KeyChar
    \/ KeyIgnored

SpecKey == InitKey /\ [][KeyNext]_vars

\* The Open prompt: the user presses Ctrl-O in the main loop and any key of
\* PromptBytes, or an escape sequence, in the prompt.
PromptBytes == {CR, ESC, BS, DEL, CTRL_S, ChA, LBRACKET, ChUpperA}

RkOpenKey ==
    /\ pc = "read"
    /\ rk.at = "first"
    /\ RkFirstOf({CTRL_O})

RkPromptKey ==
    /\ pc \in Prompts
    /\ rk.at = "first"
    /\ RkFirstOf(PromptBytes)

PromptNext ==
    \/ RkOpenKey
    \/ RkPromptKey
    \/ RkSeq
    \/ KeyCtrlO
    \/ PromptType
    \/ PromptOpen

SpecPrompt == InitKey /\ [][PromptNext]_vars

\* Editing a loaded file, one with a '\r' inside a line among them.
RoundFiles == { <<ChA, CR, ChA, LF>>, <<ChA, LF, ChA>> }
InitRound == InitWith({Arg(File(f)) : f \in RoundFiles})
SpecRound == InitRound /\ [][EditNext]_vars

\* Typing: text and Enter keys into the empty buffer.
TypeNext ==
    \/ RkType
    \/ KeyChar
    \/ KeyNewline

SpecType == InitKey /\ [][TypeNext]_vars

(***************************************************************************)
(* Properties.                                                             *)
(***************************************************************************)
\* The cursor is on a row or on the virtual row past the last one, and on a
\* byte of that row or just past its end.
CursorValid(e) ==
    /\ 0 <= e.cy /\ e.cy <= NumRows(e)
    /\ 0 <= e.cx /\ e.cx <= CurRowLen(e)

\* The labels ev takes when editorSave has run, and those of its failures.
SaveFailed == {"save_open_fail", "save_truncate_fail", "save_short_write"}
SaveRan == SaveFailed \cup {"save_ok"}

\* C1: from a valid cursor, an arrow key leaves the cursor valid: 0 <= cy <=
\* numrows and 0 <= cx <= length of the row (0 on the virtual row).
C1_MovesKeepCursorValid ==
    [][\A k \in Arrows :
          (/\ pc = "read" /\ pc' = "read"
           /\ CursorValid(E)
           /\ E' = editorRefreshScreen(editorMoveCursor(E, k)))
          => CursorValid(E')]_vars

\* C2: at a valid cursor, typing a byte and then pressing Backspace (with the
\* refresh between them) crashes nowhere and restores the bytes of row cy and
\* the cursor.
C2_InsertThenDeleteRestores ==
    (pc = "read" /\ CursorValid(E)) =>
        \A b \in Printable : \A o1 \in editorInsertChar(E, b) :
            /\ ~o1.crash
            /\ \A o2 \in editorDelChar(editorRefreshScreen(o1.e)) :
                  /\ ~o2.crash
                  /\ CurRowBytes(o2.e) = CurRowBytes(E)
                  /\ o2.e.cx = E.cx
                  /\ o2.e.cy = E.cy

\* The editor waits for a key with the cursor on the virtual row of a
\* document that has rows, after some editing.
C2_Witness ==
    /\ pc = "read" /\ ev = "edit"
    /\ CursorValid(E)
    /\ E.cy = NumRows(E)
    /\ NumRows(E) >= 1
    /\ E.dirty

\* C3: on a row cy < numrows with 0 <= cx <= its length, Enter followed by
\* Backspace leaves the sequence of rows (their count and bytes) as it was.
C3_SplitThenJoinRestores ==
    (pc = "read" /\ CursorValid(E) /\ E.cy < NumRows(E)) =>
        \A o1 \in editorInsertNewline(E) :
            /\ ~o1.crash
            /\ \A o2 \in editorDelChar(editorRefreshScreen(o1.e)) :
                  /\ ~o2.crash
                  /\ Contents(o2.e.rows) = Contents(E.rows)

\* C4: a load that fails after an accepted Open prompt leaves the rows as
\* they were.
C4_FailedOpenKeepsRows ==
    [][(pc = "open" /\ ev' = "open_fail")
          => Contents(E'.rows) = Contents(E.rows)]_vars

\* C5: once editorScroll has run on a screen of at least one row and one
\* column, the cursor is inside the window.
C5_CursorInWindow ==
    (pc = "read" /\ E.screenrows >= 1 /\ E.screencols >= 1) =>
        /\ E.rowoff <= E.cy /\ E.cy < E.rowoff + E.screenrows
        /\ E.coloff <= E.cx /\ E.cx < E.coloff + E.screencols

\* The window has been scrolled both ways to follow the cursor.
C5_Witness ==
    /\ pc = "read" /\ ev = "edit"
    /\ E.screenrows >= 1 /\ E.screencols >= 1
    /\ E.rowoff > 0 /\ E.coloff > 0

\* The file as the claim C6 has it: every LF and every CR LF becomes one LF,
\* and no other byte is dropped or added.
RECURSIVE TerminatorsToLF(_)
TerminatorsToLF(b) ==
    IF b = <<>> THEN <<>>
    ELSE IF Len(b) >= 2 /\ b[1] = CR /\ b[2] = LF
    THEN <<LF>> \o TerminatorsToLF(SubSeq(b, 3, Len(b)))
    ELSE <<b[1]>> \o TerminatorsToLF(Tail(b))

\* The file read byte by byte: CR bytes are held back; a following LF, or the
\* end of the file, drops them; any other byte releases them; every line,
\* the last unterminated one too, ends in one LF.
RECURSIVE Collapse(_, _, _)
Collapse(b, held, open) ==
    IF b = <<>> THEN (IF open THEN <<LF>> ELSE <<>>)
    ELSE IF b[1] = CR THEN Collapse(Tail(b), held + 1, TRUE)
    ELSE IF b[1] = LF THEN <<LF>> \o Collapse(Tail(b), 0, FALSE)
    ELSE [i \in 1..held |-> CR] \o <<b[1]>> \o Collapse(Tail(b), 0, TRUE)

\* The editor has just loaded the file it was started on.
JustLoaded == ev = "start" /\ infile.given /\ infile.file.ok

\* C6 (as claimed): the buffer editorSave builds right after a load is the file
\* with each LF or CR LF terminator replaced by one LF, nothing else dropped
\* or added.
C6_LoadSaveRoundTrip ==
    JustLoaded => SaveBuffer(E.rows) = TerminatorsToLF(infile.file.bytes)

\* C6 (amended): the buffer editorSave builds right after a load is the file
\* with each line's whole trailing run of CR and LF bytes replaced by one LF,
\* the unterminated last line getting one too; nothing else is dropped or added.
C6_LoadSaveCollapsesLineEnds ==
    JustLoaded => SaveBuffer(E.rows) = Collapse(infile.file.bytes, 0, FALSE)

\* A file with two CR before its LF has been loaded as the single row "a".
C6_Witness ==
    /\ pc = "read" /\ JustLoaded
    /\ infile.file.bytes = <<ChA, CR, CR, LF>>
    /\ Contents(E.rows) = << <<ChA>> >>

\* The status messages that describe the failure ev names.
Describes(label) ==
    CASE label = "open_fail" -> {"Could not open"}
      [] label = "save_open_fail" -> {"Can't save"}
      [] label = "save_truncate_fail" -> {"Can't save", "Write error"}
      [] label = "save_short_write" -> {"Write error"}
      [] OTHER -> {}

\* C7: every failed load or save is surfaced: when the editor first waits for
\* a key after a failed start-up load, and after every failing load or save
\* step, statusmsg describes the failure with the time of the failure and the
\* editor is back in its main loop.
C7_FailuresSurfaced ==
    /\ (infile.given /\ ~infile.file.ok) =>
          (E.statusmsg = "Could not open" /\ E.statusmsg_time = now /\ pc = "read")
    /\ [][(ev' \in SaveFailed \cup {"open_fail"} /\ now' = now) =>
             /\ E'.statusmsg \in Describes(ev')
             /\ E'.statusmsg_time = now'
             /\ pc' = "read"]_vars

\* C8: the dirty flag goes from set to clear only in a step in which a load or
\* a save succeeded, and a failing save leaves it as it was.
C8_DirtyClearedOnlyBySuccess ==
    [][/\ (E.dirty /\ ~E'.dirty) => (ev' \in {"open_ok", "save_ok"} /\ now' = now)
       /\ (ev' \in SaveFailed /\ now' = now) => (E'.dirty = E.dirty)]_vars

\* A short write has left the buffer marked modified.
C8_Witness ==
    /\ pc = "read"
    /\ ev = "save_short_write"
    /\ E.dirty

\* The prompts of the exit path, and the ways the process ends.
ExitPrompts == {"confirm", "exit_saveas"}
Ended == {"exited", "died", "crashed"}
AnswerYes(b) == b # <<>> /\ (b[1] = ChY \/ b[1] = ChUpperY)
Frame(e) == <<e.rows, e.cx, e.cy, e.filename, e.dirty>>

\* What Ctrl-X does apart from where its prompts may lead: a clean buffer
\* exits at once, a modified one asks; an answer starting with y or Y saves
\* and exits, asking for a name first when none is bound; another answer, or
\* the confirmation cancelled, exits without saving.
ExitPathStep ==
    /\ (pc = "read" /\ pc' = "exited") => (~E.dirty /\ ev' = "exit")
    /\ (pc = "read" /\ pc' = "confirm") => E.dirty
    /\ (pc = "confirm" /\ pc' = "exit_saveas") => (AnswerYes(buf) /\ E.filename = <<>>)
    /\ (pc = "confirm" /\ ev' \in SaveRan) =>
          (AnswerYes(buf) /\ E.filename # <<>> /\ pc' \in {"exited", "crashed"})
    /\ (pc = "confirm" /\ ev' = "exit_no") =>
          (buf # <<>> /\ ~AnswerYes(buf) /\ pc' = "exited" /\ E' = E)
    /\ (pc = "confirm" /\ ev' = "exit_cancel") => (pc' = "exited" /\ E' = E)
    /\ (pc = "confirm" /\ pc' = "exited") => ev' \in SaveRan \cup {"exit_no", "exit_cancel"}
    /\ (pc = "exit_saveas" /\ pc' \in {"exited", "crashed"}) =>
          (ev' \in SaveRan /\ buf # <<>> /\ E'.filename = buf)

\* C9 (as claimed): Ctrl-X ends in termination and never returns to the main
\* loop.
C9_ExitNeverReturns ==
    [][/\ ExitPathStep
       /\ pc \in ExitPrompts => pc' \in ExitPrompts \cup Ended]_vars

\* C9 (amended): Ctrl-X ends in termination, except that cancelling the
\* Save-as prompt it opened returns to the main loop with the buffer, the
\* cursor, the filename and the dirty flag unchanged.
C9_ExitReturnsOnlyOnCancelledSaveAs ==
    [][/\ ExitPathStep
       /\ pc \in ExitPrompts =>
             \/ pc' \in ExitPrompts \cup Ended
             \/ /\ pc = "exit_saveas" /\ pc' = "read"
                /\ ev' = "cancel"
                /\ Frame(E') = Frame(E)]_vars

\* The process has exited after the save the answer asked for, with the name
\* typed into the Save-as prompt.
C9_Witness ==
    /\ pc = "exited"
    /\ ev = "save_ok"
    /\ ~E.dirty
    /\ E.filename = <<ChUpperY>>

\* C10: while a prompt is active, and when a Save-as or Open prompt is
\* cancelled, the rows, the cursor, the filename and the dirty flag stay as
\* they were and neither a load nor a save runs.
C10_PromptConsumesKeys ==
    [][(/\ pc \in Prompts
        /\ \/ pc' = pc
           \/ pc \in {"saveas", "open", "exit_saveas"} /\ ev' = "cancel")
          => /\ Frame(E') = Frame(E)
             /\ ev' \in {"prompt", "prompt_key", "cancel"}]_vars

\* A cancelled Save-as prompt has left a modified buffer without a name.
C10_Witness ==
    /\ pc = "read"
    /\ ev = "cancel"
    /\ E.filename = <<>>
    /\ E.dirty

\* C11: after ESC, each step of editorReadKey is one more read; a read that
\* delivers no byte makes the call return ESC at once; the call issues at
\* most three reads after ESC and has returned its key after the third.
C11_EscReturnsOnTimeout ==
    [][rk.at \in {"seq0", "seq1", "seq2"} =>
          /\ rk'.reads = rk.reads + 1
          /\ rk'.last = "none" => (rk'.at = "returned" /\ rk'.ret = ESC)
          /\ rk'.reads <= 3
          /\ rk'.reads = 3 => rk'.at = "returned"
          /\ rk'.at \in {"seq0", "seq1", "seq2", "returned"}]_vars

\* ESC [ 3 has been read and the third follow-up read has timed out: ESC is
\* returned.
C11_Witness ==
    /\ rk.at = "returned"
    /\ rk.ret = ESC
    /\ rk.seq = <<LBRACKET, Ch3>>
    /\ rk.reads = 3
    /\ rk.last = "none"

\* C12: in the main loop a timed-out read hands control back to the render
\* loop: editorReadKey never sees a second timeout in one call, that is,
\* without an editorRefreshScreen between the two.
C12_RefreshBetweenTimeouts ==
    pc = "read" => rk.idle <= 1

\* C13: whenever the process has ended by exit(0) or die() with raw mode set,
\* or by die("tcsetattr"), disableRawMode has run.
C13_RawModeRestoredOnExit ==
    (/\ pc \in {"exited", "died"}
     /\ tty.raw \/ ev = "die_tcsetattr")
        => tty.disabled

\* A read has failed while a prompt held typed text, and disableRawMode has run.
C13_Witness ==
    /\ pc = "died"
    /\ ev = "die"
    /\ buf # <<>>
    /\ tty.raw
    /\ tty.disabled

\* The document c (a sequence of byte sequences) with line cy (from 0) split
\* before its byte cx.
SplitLine(c, cy, cx) ==
    [i \in 1..(Len(c) + 1) |->
        IF i <= cy THEN c[i]
        ELSE IF i = cy + 1 THEN SubSeq(c[cy + 1], 1, cx)
        ELSE IF i = cy + 2 THEN SubSeq(c[cy + 1], cx + 1, Len(c[cy + 1]))
        ELSE c[i - 1]]

\* C14: with the cursor at a valid (cy, cx) on a row, Enter splits that row
\* before byte cx, keeps every other row in order, adds exactly one row and
\* puts the cursor at (cy + 1, 0); at cx = 0 as at any other cx.
C14_EnterSplitsRow ==
    (pc = "read" /\ CursorValid(E) /\ E.cy < NumRows(E)) =>
        \A o \in editorInsertNewline(E) :
            /\ ~o.crash
            /\ Contents(o.e.rows) = SplitLine(Contents(E.rows), E.cy, E.cx)
            /\ o.e.cy = E.cy + 1
            /\ o.e.cx = 0

\* The document c with line cy (from 0) appended to line cy - 1.
JoinLine(c, cy) ==
    [i \in 1..(Len(c) - 1) |->
        IF i < cy THEN c[i]
        ELSE IF i = cy THEN c[cy] \o c[cy + 1]
        ELSE c[i + 1]]

\* C15: Backspace at (cy, 0) with 0 < cy < numrows appends row cy to row
\* cy - 1, removes it, keeps every other row in order, puts the cursor at
\* (cy - 1, old length of row cy - 1) and sets dirty; at (0, 0) and on the
\* virtual row it changes nothing.
C15_BackspaceJoinsRows ==
    pc = "read" =>
        \A o \in editorDelChar(E) :
            /\ (E.cx = 0 /\ 0 < E.cy /\ E.cy < NumRows(E)) =>
                  /\ ~o.crash
                  /\ Contents(o.e.rows) = JoinLine(Contents(E.rows), E.cy)
                  /\ o.e.cy = E.cy - 1
                  /\ o.e.cx = Len(Contents(E.rows)[E.cy])
                  /\ o.e.dirty
            /\ ((E.cx = 0 /\ E.cy = 0) \/ E.cy = NumRows(E)) =>
                  (~o.crash /\ o.e = E)

\* The lines ls joined by LF.
RECURSIVE JoinLF(_)
JoinLF(ls) ==
    IF ls = <<>> THEN <<>>
    ELSE IF Len(ls) = 1 THEN ls[1]
    ELSE ls[1] \o <<LF>> \o JoinLF(Tail(ls))

\* The text the buffer stands for: its rows, and the empty line the cursor
\* is on when it is on the virtual row.
Doc(e) ==
    JoinLF(Contents(e.rows) \o (IF e.cy = NumRows(e) THEN << <<>> >> ELSE <<>>))

\* The number of LF in text t, and the length of what follows the last one.
RECURSIVE CountLF(_)
CountLF(t) ==
    IF t = <<>> THEN 0 ELSE (IF Head(t) = LF THEN 1 ELSE 0) + CountLF(Tail(t))
RECURSIVE LastLineLen(_)
LastLineLen(t) ==
    IF t = <<>> \/ t[Len(t)] = LF THEN 0
    ELSE 1 + LastLineLen(SubSeq(t, 1, Len(t) - 1))

\* C16: typing into the empty buffer, each printable byte and each Enter
\* extends the text the buffer stands for by that byte, or by a line break,
\* leaves the cursor after the last byte typed (row: the number of Enters,
\* column: the length typed since the last one) and sets dirty.
C16_TypingBuildsText ==
    /\ (pc = "read" /\ ev = "start") => (Doc(E) = <<>> /\ E.cx = 0 /\ E.cy = 0)
    /\ [][(pc = "read" /\ rk.at = "returned") =>
             /\ pc' = "read"
             /\ Doc(E') = Doc(E) \o <<(IF rk.ret = CR THEN LF ELSE rk.ret)>>
             /\ E'.cy = CountLF(Doc(E'))
             /\ E'.cx = LastLineLen(Doc(E'))
             /\ E'.dirty]_vars

C18_AccessesInRange ==
    pc = "read" =>
        /\ \A o \in editorInsertNewline(E) : ~o.crash
        /\ \A c \in Printable : \A o \in editorInsertChar(E, c) : ~o.crash
        /\ \A o \in editorDelChar(E) : ~o.crash
        /\ E.cy < NumRows(E) => (0 <= E.cx /\ E.cx <= RowSize(E.rows[E.cy + 1]))
        /\ E.cy = NumRows(E) => E.cx = 0

\* C19: when the exit path has run the save the user asked for and the
\* process exits, the save has succeeded and dirty is false.
C19_ExitOnlyAfterSuccessfulSave ==
    [][(pc \in ExitPrompts /\ pc' = "exited" /\ ev' \in SaveRan) =>
          (ev' = "save_ok" /\ ~E'.dirty)]_vars

\* The rows of the buffer after a successful save of e followed by
\* editorOpen of the file written.
Reopened(e) ==
    { Contents(editorOpen(o.e, o.e.filename, File(SaveBuffer(o.e.rows)), now).rows) :
        o \in {x \in editorSave(e, e.filename, "ok", now) : ~x.crash} }

\* Line l without the '\r' bytes at its end.
RECURSIVE DropTrailingCR(_)
DropTrailingCR(l) ==
    IF l # <<>> /\ l[Len(l)] = CR THEN DropTrailingCR(SubSeq(l, 1, Len(l) - 1)) ELSE l

\* C20 (as claimed): saving the buffer and opening the saved file gives back
\* the same rows.
C20_SaveOpenRoundTrip ==
    pc = "read" => \A r \in Reopened(E) : r = Contents(E.rows)

\* C20 (amended): saving the buffer and opening the saved file gives back
\* the same number of rows, each row as it was but for the '\r' bytes at its
\* end, which are gone.
C20_SaveOpenDropsTrailingCR ==
    pc = "read" =>
        \A r \in Reopened(E) :
            r = [i \in 1..NumRows(E) |-> DropTrailingCR(Content(E.rows[i]))]

\* A loaded row with a '\r' inside has been split right after the '\r'.
C20_Witness ==
    /\ pc = "read"
    /\ ev = "edit"
    /\ Contents(E.rows) = << <<ChA, CR>>, <<ChA>> >>
    /\ Reopened(E) # {}

====
